---------------------------- MODULE Spec2Model ----------------------------
(***************************************************************************)
(* Model of the Medicover report importer (parse_and_import_medicover.py   *)
(* and medicover_aws/utils.py).                                            *)
(*                                                                         *)
(* Representation.  A Python str is a tuple of one-character strings, so   *)
(* that split, join, upper, lower, capitalize, lstrip and the substring    *)
(* test are computed character by character.  A JSON value is a tagged     *)
(* record: None, Str(s) or Lst(l).  A Python dict with string keys is a    *)
(* function whose domain is a set of strs.                                 *)
(***************************************************************************)
EXTENDS Integers, Sequences, FiniteSets, TLC

\* ------------------------------------------------------------------ bounds

\* Longest batch handed to add_missing_keys in SpecPad.
MaxBatch == 2

\* Number of successive add_missing_keys calls explored in SpecPad.
MaxPadCalls == 2

\* Longest list of hgvsc candidate paths in a mapping entry (SpecMap).
MaxCand == 3

\* Longest refalt primary value, in characters (SpecMap).
MaxRefaltLen == 5

\* Longest ACGS criteria list of a finding (SpecMap).
MaxCrit == 4

\* Most rows of the panel assignments (SpecPanel).
MaxSamples == 2

\* Most rows of the disorder reference table (SpecPanel).
MaxRefPanels == 2

\* ----------------------------------------------------------------- strings

LowerChars == <<"a","b","c","d","e","f","g","h","i","j","k","l","m",
                "n","o","p","q","r","s","t","u","v","w","x","y","z">>

UpperChars == <<"A","B","C","D","E","F","G","H","I","J","K","L","M",
                "N","O","P","Q","R","S","T","U","V","W","X","Y","Z">>

Digits == {"0","1","2","3","4","5","6","7","8","9"}

\* str.upper() on one character: a lower-case letter maps to its capital.
UpperChar(c) ==
    IF \E i \in 1..Len(LowerChars) : LowerChars[i] = c
    THEN UpperChars[CHOOSE i \in 1..Len(LowerChars) : LowerChars[i] = c]
    ELSE c

\* str.lower() on one character.
LowerChar(c) ==
    IF \E i \in 1..Len(UpperChars) : UpperChars[i] = c
    THEN LowerChars[CHOOSE i \in 1..Len(UpperChars) : UpperChars[i] = c]
    ELSE c

upper(s) == [i \in 1..Len(s) |-> UpperChar(s[i])]

lower(s) == [i \in 1..Len(s) |-> LowerChar(s[i])]

\* str.capitalize(): first character upper-cased, the rest lower-cased.
capitalize(s) ==
    IF Len(s) = 0 THEN s ELSE <<UpperChar(s[1])>> \o lower(Tail(s))

\* sub in s (Python substring test); the empty str is in every str.
contains(sub, s) ==
    \E i \in 0..(Len(s) - Len(sub)) : SubSeq(s, i + 1, i + Len(sub)) = sub

\* s.split(d) for a one-character delimiter d: always at least one part.
RECURSIVE split(_, _)
split(s, d) ==
    IF \A i \in 1..Len(s) : s[i] # d
    THEN <<s>>
    ELSE LET p == CHOOSE i \in 1..Len(s) :
                      s[i] = d /\ \A j \in 1..(i - 1) : s[j] # d
         IN  <<SubSeq(s, 1, p - 1)>> \o split(SubSeq(s, p + 1, Len(s)), d)

\* sep.join(parts)
RECURSIVE join(_, _)
join(sep, parts) ==
    IF Len(parts) = 0 THEN <<>>
    ELSE IF Len(parts) = 1 THEN parts[1]
    ELSE parts[1] \o sep \o join(sep, Tail(parts))

\* s.lstrip(c): every leading c removed.
RECURSIVE lstrip(_, _)
lstrip(s, c) ==
    IF Len(s) > 0 /\ s[1] = c THEN lstrip(Tail(s), c) ELSE s

\* ------------------------------------------------------------- JSON values

None == [t |-> "None", v |-> <<>>]

Str(s) == [t |-> "str", v |-> s]

Lst(l) == [t |-> "list", v |-> l]

\* Python truthiness of a value: None, "" and [] are falsy.
Truthy(x) == x.t # "None" /\ Len(x.v) > 0

\* The placeholder add_missing_keys writes: "[null]".
NullSentinel == Str(<<"[","n","u","l","l","]">>)

\* --------------------------------------------------------------- variables

VARIABLES
    data,        \* add_missing_keys: the list passed in (its dicts are mutated in place)
    new_data,    \* add_missing_keys: the list returned
    pad_in,      \* the argument as it was when the latest call began
    pad_calls,   \* number of add_missing_keys calls made
    structure,             \* "standard", "flat" or "nested"
    mapping_json_keys,     \* mapping_json_keys[structure].items(), in order
    variant_data,          \* the finding being mapped
    evaluation,            \* what jq reads of the evaluation that holds the finding
    parsed_variant_data,   \* the record being built for the finding
    key_index,             \* number of mapping items already handled
    map_pc,                \* "map", "mapped", or "raised" (an exception left main)
    sample_as_key,           \* items of the dict: sample, Panels, r_code, panel_name
    panelapp_dump,           \* rows of the disorder reference table
    mapping_rescued_panels,  \* rows of the rescue table
    panel_i,                 \* position of panel_data in panelapp_dump (0: loop not begun)
    sample_i,                \* position of sample in sample_as_key (0: loop not begun)
    rescued,                 \* the local flag rescued
    matched,                 \* the local flag matched
    build_pc,                \* "build" or "built"
    reports,                 \* the report documents: name and parsed JSON, in order
    report_i,                \* number of reports the outer loop has taken
    evaluations,             \* evaluations of the report being processed
    eval_j,                  \* number of evaluations the loop has taken
    variants,                \* findings of the evaluation being processed
    variant_k,               \* number of findings the loop has taken
    data_to_import,          \* the records appended so far
    skipped_reports,         \* the skip counter
    correct_data_to_import,  \* what add_missing_keys returned
    last_timestamp,          \* uuid._last_timestamp (0: None)
    run_pc                   \* "idle", "reports", "evaluations", "variants",
                             \* "mapping", "done", or "raised"

padVars == <<data, new_data, pad_in, pad_calls>>

mapVars == <<structure, mapping_json_keys, variant_data, evaluation,
             parsed_variant_data, key_index, map_pc>>

panelVars == <<sample_as_key, panelapp_dump, mapping_rescued_panels,
               panel_i, sample_i, rescued, matched, build_pc>>

runVars == <<reports, report_i, evaluations, eval_j, variants, variant_k,
             data_to_import, skipped_reports, correct_data_to_import,
             last_timestamp, run_pc>>

vars == <<data, new_data, pad_in, pad_calls,
          structure, mapping_json_keys, variant_data, evaluation,
          parsed_variant_data, key_index, map_pc,
          sample_as_key, panelapp_dump, mapping_rescued_panels,
          panel_i, sample_i, rescued, matched, build_pc,
          reports, report_i, evaluations, eval_j, variants, variant_k,
          data_to_import, skipped_reports, correct_data_to_import,
          last_timestamp, run_pc>>

\* What the steps of one part of main leave alone: the state of the others.
PadFrame == <<mapVars, panelVars, runVars>>

MapFrame == <<padVars, panelVars, runVars>>

BuildFrame == <<padVars, mapVars, runVars>>

RunFrame == <<padVars, panelVars>>

\* ------------------------------------------------------- add_missing_keys

\* Sequences over S of length at most n.
SeqUpTo(S, n) == UNION {[1..m -> S] : m \in 0..n}

\* Every dict whose keys are a subset of K and whose values are in V.
Dicts(K, V) == UNION {[D -> V] : D \in SUBSET K}

\* Mutant: the key union is gathered from the first dict only.
add_missing_keys_first(d) ==
    LET all_keys == IF Len(d) = 0 THEN {} ELSE DOMAIN d[1]
    IN  [i \in 1..Len(d) |->
            [k \in all_keys \cup DOMAIN d[i] |->
                IF k \in DOMAIN d[i] THEN d[i][k] ELSE NullSentinel]]

\* Mutant: the membership test is a truthiness test (not data_dict.get(key)).
add_missing_keys_falsy(d) ==
    LET all_keys == UNION {DOMAIN d[i] : i \in 1..Len(d)}
    IN  [i \in 1..Len(d) |->
            [k \in all_keys |->
                IF k \in DOMAIN d[i] /\ Truthy(d[i][k])
                THEN d[i][k] ELSE NullSentinel]]

\* utils.add_missing_keys: gather every key of every dict, then give each
\* dict the keys it lacks with the value "[null]"; same dicts, same order.
add_missing_keys(d) ==
    LET all_keys == UNION {DOMAIN d[i] : i \in 1..Len(d)}
    IN  [i \in 1..Len(d) |->
            [k \in all_keys |->
                IF k \in DOMAIN d[i] THEN d[i][k] ELSE NullSentinel]]

k_ref == <<"r","e","f">>

k_alt == <<"a","l","t">>

k_panel == <<"p","a","n","e","l">>

PadKeys == {k_ref, k_alt, k_panel}

PadValues == {None, Str(<<"A">>)}

\* add_missing_keys not under study: an empty batch, no call made.
PadIdle ==
    /\ data = <<>>
    /\ new_data = <<>>
    /\ pad_in = <<>>
    /\ pad_calls = 0

\* Field mapping not under study: no finding, nothing to map.
MapIdle ==
    /\ structure = "standard"
    /\ mapping_json_keys = <<>>
    /\ variant_data = <<>>
    /\ evaluation = <<>>
    /\ parsed_variant_data = <<>>
    /\ key_index = 0
    /\ map_pc = "mapped"

\* Index build not under study: no sample, no reference row, built.
BuildIdle ==
    /\ sample_as_key = <<>>
    /\ panelapp_dump = <<>>
    /\ mapping_rescued_panels = <<>>
    /\ panel_i = 0
    /\ sample_i = 0
    /\ rescued = FALSE
    /\ matched = FALSE
    /\ build_pc = "built"

\* The reports loop not under study: no report, loop not entered.
RunIdle ==
    /\ reports = <<>>
    /\ report_i = 0
    /\ evaluations = <<>>
    /\ eval_j = 0
    /\ variants = <<>>
    /\ variant_k = 0
    /\ data_to_import = <<>>
    /\ skipped_reports = 0
    /\ correct_data_to_import = <<>>
    /\ last_timestamp = 0
    /\ run_pc = "idle"

PadInit ==
    /\ data \in SeqUpTo(Dicts(PadKeys, PadValues), MaxBatch)
    /\ new_data = <<>>
    /\ pad_in = <<>>
    /\ pad_calls = 0
    /\ MapIdle
    /\ BuildIdle
    /\ RunIdle

\* One call new_data = add_missing_keys(data).  The dicts of data are the
\* dicts of new_data, so data reads padded afterwards as well.
AddMissingKeys ==
    /\ pad_calls < MaxPadCalls
    /\ pad_in' = data
    /\ new_data' = add_missing_keys(data)
    /\ data' = add_missing_keys(data)
    /\ pad_calls' = pad_calls + 1
    /\ UNCHANGED PadFrame

PadNext == AddMissingKeys

SpecPad == PadInit /\ [][PadNext]_vars

\* ------------------------------------------------------------------ claims

KeyUnion(batch) == {k \in PadKeys : \E i \in 1..Len(batch) : k \in DOMAIN batch[i]}

Rectangular(batch) ==
    \A i, j \in 1..Len(batch) : DOMAIN batch[i] = DOMAIN batch[j]

\* C2: after add_missing_keys every record of the returned batch has the
\* same key set, the union of the keys of all input records, and every key
\* a record lacked holds the sentinel "[null]".
C2_Rectangular ==
    pad_calls >= 1 =>
        /\ Len(new_data) = Len(pad_in)
        /\ \A i \in 1..Len(new_data) :
              /\ DOMAIN new_data[i] = KeyUnion(pad_in)
              /\ \A k \in DOMAIN new_data[i] \ DOMAIN pad_in[i] :
                    new_data[i][k] = NullSentinel

\* A batch whose records had different key sets has been padded.
C2_Witness ==
    /\ pad_calls = 1
    /\ Len(pad_in) = 2
    /\ DOMAIN pad_in[1] = {k_ref}
    /\ DOMAIN pad_in[2] = {k_alt, k_panel}
    /\ new_data[1][k_panel] = NullSentinel

\* C5: padding a rectangular batch returns it unchanged; padding any batch
\* keeps the number and order of records, keeps every key a record had with
\* its value, and only adds keys.
C5_Idempotent ==
    pad_calls >= 1 =>
        /\ Len(new_data) = Len(pad_in)
        /\ \A i \in 1..Len(pad_in) :
              \A k \in DOMAIN pad_in[i] :
                  k \in DOMAIN new_data[i] /\ new_data[i][k] = pad_in[i][k]
        /\ (Rectangular(pad_in) => new_data = pad_in)

\* The second call ran on the batch the first call padded (it holds a
\* sentinel and a None value) and returned it unchanged.
C5_Witness ==
    /\ pad_calls = 2
    /\ Len(pad_in) = 2
    /\ Rectangular(pad_in)
    /\ \E k \in DOMAIN pad_in[1] : pad_in[1][k] = NullSentinel
    /\ \E k \in DOMAIN pad_in[2] : pad_in[2][k] = None
    /\ new_data = pad_in


\* ------------------------------------------------------------ field mapping

\* A dict with key k set to v (d[k] = v).
Put(d, k, v) == [x \in DOMAIN d \cup {k} |-> IF x = k THEN v ELSE d[x]]

\* jq.compile(query).input_value(doc).first() for a path query: the value
\* at the path, null when the path is absent.
jq_first(query, doc) == IF query \in DOMAIN doc THEN doc[query] ELSE None

\* jq.compile(query).input_value(doc).all() for a path query: one output.
jq_all(query, doc) == <<jq_first(query, doc)>>

k_hgvsc == <<"h","g","v","s","c">>

k_refalt == <<"r","e","f","a","l","t">>

k_code == <<"c","o","d","e">>

ACGS_CODES == {
    <<"P","V","S","1">>,
    <<"P","S","1">>, <<"P","S","2">>, <<"P","S","3">>, <<"P","S","4">>,
    <<"P","M","1">>, <<"P","M","2">>, <<"P","M","3">>, <<"P","M","4">>,
    <<"P","M","5">>, <<"P","M","6">>,
    <<"P","P","1">>, <<"P","P","2">>, <<"P","P","3">>, <<"P","P","4">>,
    <<"B","A","1">>,
    <<"B","S","1">>, <<"B","S","2">>, <<"B","S","3">>, <<"B","S","4">>,
    <<"B","P","1">>, <<"B","P","2">>, <<"B","P","3">>, <<"B","P","4">>,
    <<"B","P","5">>, <<"B","P","7">> }

\* Mutant: every first match is appended, null or not.
hgvsc_list_all(queries, doc) ==
    [i \in 1..Len(queries) |-> jq_first(queries[i], doc)]

\* The hgvsc accumulator: the first match of each candidate query, in
\* order, kept when it is truthy (if jq_output: hgvsc.append(jq_output)).
hgvsc_list(queries, doc) ==
    SelectSeq([i \in 1..Len(queries) |-> jq_first(queries[i], doc)], Truthy)

\* parsed_variant_data["hgvsc"]: ":".join(hgvsc) if hgvsc else None.
hgvsc_join(queries, doc) ==
    LET hgvsc == hgvsc_list(queries, doc)
    IN  IF Len(hgvsc) > 0
        THEN Str(join(<<":">>, [i \in 1..Len(hgvsc) |-> hgvsc[i].v]))
        ELSE None

\* The refalt branch: [raised, ref, alt].  "/" in jq_output raises TypeError
\* when jq_output is None; ref, alt = jq_output.split("/") raises ValueError
\* unless the split has exactly two parts.
refalt_split(struct, entry, doc) ==
    LET jq_output == jq_first(entry.paths[1], doc)
        parts == split(jq_output.v, "/")
    IN  IF jq_output.t # "str"
        THEN [raised |-> TRUE, ref |-> None, alt |-> None]
        ELSE IF contains(<<"/">>, jq_output.v)
        THEN IF Len(parts) = 2
             THEN [raised |-> FALSE, ref |-> Str(parts[1]), alt |-> Str(parts[2])]
             ELSE [raised |-> TRUE, ref |-> None, alt |-> None]
        ELSE IF struct = "nested"
        THEN [raised |-> FALSE, ref |-> jq_output,
              alt |-> jq_first(entry.paths[2], doc)]
        ELSE [raised |-> FALSE, ref |-> None, alt |-> None]

\* list(zip(criteria, criteria[1:]))[::2]: the pairs at (1,2), (3,4), ...
\* (1-based); a trailing unpaired element is dropped.
criteria_pairs(criteria) ==
    [p \in 1..(Len(criteria) \div 2) |->
        [code |-> criteria[2 * p - 1], strength |-> criteria[2 * p]]]

\* Mutant: the strength words are joined without the per-word capitalize.
format_strength_lower(strength) ==
    LET words == split(capitalize(lower(strength)), "_")
        joined == join(<<" ">>, words)
    IN  IF joined = <<"S","t","a","n","d","a","l","o","n","e">>
        THEN <<"S","t","a","n","d","-","A","l","o","n","e">>
        ELSE joined

\* " ".join(ele.capitalize() for ele in
\*          strength.lower().capitalize().split("_")),
\* then "Standalone" becomes "Stand-Alone".
format_strength(strength) ==
    LET words == split(capitalize(lower(strength)), "_")
        joined == join(<<" ">>, [i \in 1..Len(words) |-> capitalize(words[i])])
    IN  IF joined = <<"S","t","a","n","d","a","l","o","n","e">>
        THEN <<"S","t","a","n","d","-","A","l","o","n","e">>
        ELSE joined

\* reformatted_code = code.split("_")[0]
reformatted_code(code) == split(code, "_")[1]

\* The standard loop over the pairs of one criteria list, in order.
RECURSIVE add_code_strengths(_, _)
add_code_strengths(parsed, pairs) ==
    IF Len(pairs) = 0 THEN parsed
    ELSE LET rc == reformatted_code(pairs[1].code)
             nxt == IF upper(rc) \in ACGS_CODES
                    THEN Put(parsed, lower(rc), Str(format_strength(pairs[1].strength)))
                    ELSE parsed
         IN  add_code_strengths(nxt, Tail(pairs))

\* The flat loop over the codes of jq_output[0], in order.
RECURSIVE add_codes(_, _)
add_codes(parsed, codes) ==
    IF Len(codes) = 0 THEN parsed
    ELSE LET rc == reformatted_code(codes[1])
             nxt == IF upper(rc) \in ACGS_CODES
                    THEN Put(parsed, lower(rc), None)
                    ELSE parsed
         IN  add_codes(nxt, Tail(codes))

\* The code branch for standard and flat: [raised, parsed].  Iterating or
\* slicing a criteria value that is None raises TypeError.
acgs_code_strength(struct, entry, doc, parsed) ==
    LET jq_output == jq_all(entry.paths[1], doc)
    IN  IF jq_output[1].t # "list"
        THEN [raised |-> TRUE, parsed |-> parsed]
        ELSE IF struct = "flat"
        THEN [raised |-> FALSE, parsed |-> add_codes(parsed, jq_output[1].v)]
        ELSE [raised |-> FALSE,
              parsed |-> add_code_strengths(parsed, criteria_pairs(jq_output[1].v))]

\* ---- the other branches of the mapping loop

k_date_last_evaluated == <<"d","a","t","e","_","l","a","s","t","_","e","v","a","l","u","a","t","e","d">>

k_reported == <<"r","e","p","o","r","t","e","d">>

k_gene_symbol == <<"g","e","n","e","_","s","y","m","b","o","l">>

\* The jq queries the branches test the key against.
q_effect == <<".","e","f","f","e","c","t">>

q_genomic_build == <<".","t","e","c","h","n","i","c","a","l","_","i","n","f","o",".","g","e","n","o","m","i","c","_","b","u","i","l","d">>

s_equenceOntology == <<"e","q","u","e","n","c","e","O","n","t","o","l","o","g","y">>

s_which_is == <<","," ","w","h","i","c","h"," ","i","s">>

s_None == <<"N","o","n","e">>

s_REPORTING == <<"R","E","P","O","R","T","I","N","G">>

s_yes == <<"y","e","s">>

s_no == <<"n","o">>

s_build37_long == <<"G","R","C","h","_","3","7","_","g","1","k",",","C","h","r","o","m","o","s","o","m","e",",","H","o","m","o"," ","s","a","p","i","e","n","s">>

s_build38_long == <<"G","R","C","h","_","3","8",",","C","h","r","o","m","o","s","o","m","e",",","H","o","m","o"," ","s","a","p","i","e","n","s">>

s_HG38 == <<"H","G","3","8">>

s_GRCh38 == <<"G","R","C","h","3","8">>

s_GRCh37_p13 == <<"G","R","C","h","3","7",".","p","1","3">>

s_GRCh38_p14 == <<"G","R","C","h","3","8",".","p","1","4">>

\* s.replace(old, new): the occurrences of old, left to right, not
\* overlapping (old is not empty).
RECURSIVE replace(_, _, _)
replace(s, old, new) ==
    IF Len(s) < Len(old) THEN s
    ELSE IF SubSeq(s, 1, Len(old)) = old
    THEN new \o replace(SubSeq(s, Len(old) + 1, Len(s)), old, new)
    ELSE <<s[1]>> \o replace(Tail(s), old, new)

\* str(ele) for a jq output that is null or a string.
py_str(ele) == IF ele.t = "None" THEN s_None ELSE ele.v

\* int(s) for a str of decimal digits.
RECURSIVE to_int(_)
to_int(s) ==
    IF Len(s) = 0 THEN 0
    ELSE 10 * to_int(SubSeq(s, 1, Len(s) - 1))
         + (CHOOSE d \in 0..9 :
               <<"0","1","2","3","4","5","6","7","8","9">>[d + 1] = s[Len(s)])

\* n written with at least w digits (strftime's zero padding).
RECURSIVE zero_pad(_, _)
zero_pad(s, w) == IF Len(s) >= w THEN s ELSE zero_pad(<<"0">> \o s, w)

days_in_month(y, m) ==
    IF m = 2
    THEN IF (y % 4 = 0 /\ y % 100 # 0) \/ y % 400 = 0 THEN 29 ELSE 28
    ELSE IF m \in {4, 6, 9, 11} THEN 30 ELSE 31

IsDigits(s) == Len(s) > 0 /\ \A i \in 1..Len(s) : s[i] \in Digits

\* datetime.strptime(s, "%d/%m/%Y") when dayfirst, "%m/%d/%Y" otherwise,
\* then .strftime("%Y-%m-%d"), as [raised, text]: ValueError unless s is
\* day, month and a four-digit year separated by "/" and names a date.
\* The year is written as the C library writes it, without leading zeros.
strptime_strftime(s, dayfirst) ==
    LET parts == split(s, "/")
        dd == IF dayfirst THEN parts[1] ELSE parts[2]
        mm == IF dayfirst THEN parts[2] ELSE parts[1]
        yy == parts[3]
        ok == /\ Len(parts) = 3
              /\ IsDigits(dd) /\ IsDigits(mm) /\ IsDigits(yy)
              /\ Len(dd) <= 2 /\ Len(mm) <= 2 /\ Len(yy) = 4
              /\ to_int(yy) >= 1
              /\ to_int(mm) \in 1..12
              /\ to_int(dd) \in 1..days_in_month(to_int(yy), to_int(mm))
    IN  IF ok
        THEN [raised |-> FALSE,
              text |-> lstrip(yy, "0") \o <<"-">> \o zero_pad(mm, 2)
                       \o <<"-">> \o zero_pad(dd, 2)]
        ELSE [raised |-> TRUE, text |-> <<>>]

\* The date_last_evaluated branch, as [raised, value]: the first match in
\* the evaluation, None when it is falsy, else the date rewritten (day
\* first for the nested structure, month first otherwise).
date_reformat(struct, entry, eval_data) ==
    LET jq_output == jq_first(entry.paths[1], eval_data)
        r == strptime_strftime(jq_output.v, struct = "nested")
    IN  IF ~Truthy(jq_output) THEN [raised |-> FALSE, value |-> None]
        ELSE IF jq_output.t # "str" THEN [raised |-> TRUE, value |-> None]
        ELSE [raised |-> r.raised, value |-> Str(r.text)]

\* The reported branch: None for the nested structure; otherwise "yes"
\* for the single output "REPORTING", "no" for any other single output,
\* and nothing when the outputs are not exactly one.
reported_flag(struct, entry, doc, parsed) ==
    LET jq_output == jq_all(entry.paths[1], doc)
    IN  IF struct = "nested" THEN Put(parsed, k_reported, None)
        ELSE IF Len(jq_output) = 1
        THEN Put(parsed, k_reported,
                 Str(IF jq_output[1] = Str(s_REPORTING) THEN s_yes ELSE s_no))
        ELSE parsed

\* sep.join(outputs), as [raised, value]: TypeError unless every output is
\* a str.
join_outputs(sep, outputs) ==
    IF \A i \in 1..Len(outputs) : outputs[i].t = "str"
    THEN [raised |-> FALSE,
          value |-> Str(join(sep, [i \in 1..Len(outputs) |-> outputs[i].v]))]
    ELSE [raised |-> TRUE, value |-> None]

\* The effect branch, as [raised, value]: a single output as it is,
\* otherwise the outputs joined with "&".
effect_join(entry, doc) ==
    LET jq_output == jq_all(entry.paths[1], doc)
    IN  IF Len(jq_output) = 1 THEN [raised |-> FALSE, value |-> jq_output[1]]
        ELSE join_outputs(<<"&">>, jq_output)

\* The else branch, as [raised, value]: the outputs as strs without
\* ", which is", joined with " | "; the genome builds renamed; the gene
\* symbol taken from .acmgScoring.interpretedGene when the output is
\* "None"; and "None" made None at the end.
map_default(entry, doc, eval_data) ==
    LET value == entry.dbkeys[1]
        input_data == IF entry.key = q_genomic_build THEN eval_data ELSE doc
        jq_output == jq_all(entry.paths[1], input_data)
        formatted_output ==
            join(<<" ","|"," ">>,
                 [i \in 1..Len(jq_output) |->
                     replace(py_str(jq_output[i]), s_which_is, <<>>)])
        rescue == join_outputs(<<" ">>, jq_all("interpretedGene", doc))
        final(s) == IF s = s_None THEN None ELSE Str(s)
    IN  IF formatted_output = s_build37_long
        THEN [raised |-> FALSE, value |-> final(s_GRCh37_p13)]
        ELSE IF formatted_output \in {s_HG38, s_build38_long, s_GRCh38}
        THEN [raised |-> FALSE, value |-> final(s_GRCh38_p14)]
        ELSE IF formatted_output = s_None /\ value = k_gene_symbol
        THEN IF rescue.raised THEN rescue
             ELSE [raised |-> FALSE, value |-> final(rescue.value.v)]
        ELSE IF value = k_gene_symbol
        THEN [raised |-> FALSE,
              value |-> final(join(<<" ">>, split(formatted_output, "_")))]
        ELSE [raised |-> FALSE,
              value |-> final(join(<<" ">>,
                            split(capitalize(lower(formatted_output)), "_")))]

\* ---- inputs of the field mapping: configurations and findings

s_c1 == <<"c",".","1","A",">","T">>

s_nm == <<"N","M","1">>

s_c2 == <<"c",".","2","G",">","C">>

\* The paths an hgvsc entry may list, as field names of the finding.
HgvscPaths == {"hgvs1", "transcript", "hgvs2"}

HgvscEntries ==
    {[key |-> k_hgvsc, paths |-> q, dbkeys |-> <<>>] :
        q \in UNION {[1..n -> HgvscPaths] : n \in 1..MaxCand}}

\* {primary query: [ref_key, alt_key], second query: ...}; the second query
\* is read for the nested structure only.
RefaltEntry ==
    [key |-> k_refalt, paths |-> <<"refalt", "altAllele">>, dbkeys |-> <<k_ref, k_alt>>]

CodeEntry == [key |-> k_code, paths |-> <<"criteria">>, dbkeys |-> <<>>]

FullConfig ==
    <<[key |-> k_hgvsc, paths |-> <<"hgvs1", "transcript", "hgvs2">>, dbkeys |-> <<>>],
      RefaltEntry, CodeEntry>>

\* Findings for the hgvsc entries: a path may be absent, null, "" or a str.
HgvscFindings ==
    LET rest == {[transcript |-> b, hgvs2 |-> c] :
                    b \in {None, Str(<<>>), Str(s_nm)}, c \in {None, Str(s_c2)}}
    IN  rest \cup
        {[hgvs1 |-> a, transcript |-> r.transcript, hgvs2 |-> r.hgvs2] :
            a \in {None, Str(<<>>), Str(s_c1)}, r \in rest}

RefaltChars == {"A", "T", "/"}

RefaltFindings ==
    {[altAllele |-> a] : a \in {None, Str(<<"T">>)}}
    \cup
    {[refalt |-> p, altAllele |-> a] :
        p \in {None} \cup {Str(s) : s \in SeqUpTo(RefaltChars, MaxRefaltLen)},
        a \in {None, Str(<<"T">>)}}

e_pm2 == <<"P","M","2","_","M","o","d">>

e_ba1 == <<"b","a","1">>

e_xy1 == <<"X","Y","1">>

e_supporting == <<"S","U","P","P","O","R","T","I","N","G">>

e_very_strong == <<"V","E","R","Y","_","S","T","R","O","N","G">>

e_standalone == <<"S","T","A","N","D","A","L","O","N","E">>

CritElems == {e_pm2, e_ba1, e_xy1, e_supporting, e_very_strong, e_standalone}

CodeFindings ==
    {[criteria |-> None], [other |-> None]}
    \cup {[criteria |-> Lst(l)] : l \in SeqUpTo(CritElems, MaxCrit)}

FullFindings ==
    {[hgvs1 |-> a, transcript |-> None, hgvs2 |-> Str(s_c2),
      refalt |-> p, altAllele |-> Str(<<"T">>),
      criteria |-> Lst(<<e_pm2, e_supporting>>)] :
        a \in {None, Str(s_c1)}, p \in {Str(<<"A","/","T">>), Str(<<"A">>)}}

\* ---- inputs for the other branches

DateEntry == [key |-> k_date_last_evaluated, paths |-> <<"date">>, dbkeys |-> <<>>]

DateStrings ==
    { <<>>, <<"0","2","/","0","1","/","2","0","2","0">>, <<"1","3","/","0","1","/","2","0","2","0">>, <<"1","/","1","3","/","2","0","2","0">>, <<"3","1","/","0","2","/","2","0","2","0">>, <<"2","9","/","0","2","/","2","0","2","0">>, <<"2","0","2","0","-","0","1","-","0","2">> }

\* What the date query finds in the evaluation: nothing, null or a str.
DateEvaluations ==
    {[other |-> None], [date |-> None]} \cup {[date |-> Str(s)] : s \in DateStrings}

ReportedEntry == [key |-> k_reported, paths |-> <<"status">>, dbkeys |-> <<>>]

ReportedFindings ==
    {[other |-> None], [status |-> None], [status |-> Str(s_REPORTING)],
     [status |-> Str(<<"N","O","T","_","R","E","P","O","R","T","I","N","G">>)]}

k_effect == <<"e","f","f","e","c","t">>

EffectEntries ==
    {[key |-> q_effect, paths |-> <<"effect">>, dbkeys |-> <<k_effect>>],
     [key |-> <<".","s","e","q","u","e","n","c","e","O","n","t","o","l","o","g","y">>,
      paths |-> <<"sequenceOntology">>, dbkeys |-> <<k_effect>>]}

EffectFindings ==
    {[other |-> None]}
    \cup {[effect |-> x, sequenceOntology |-> x] : x \in {None, Str(<<"m","i","s","s","e","n","s","e","_","v","a","r","i","a","n","t">>)}}

GeneEntry ==
    [key |-> <<".","g","e","n","e","N","a","m","e">>, paths |-> <<"geneName">>, dbkeys |-> <<k_gene_symbol>>]

\* The gene name and the interpreted gene of a finding: each may be absent,
\* null or a str.
GeneFindings ==
    LET names == {None, Str(<<"B","R","C","A","_","1">>)}
        genes == {None, Str(<<"T","P","5","3">>)}
    IN  {[other |-> None]}
        \cup {[geneName |-> a] : a \in names}
        \cup {[interpretedGene |-> b] : b \in genes}
        \cup {[geneName |-> a, interpretedGene |-> b] : a \in names, b \in genes}

k_assembly == <<"a","s","s","e","m","b","l","y">>

BuildEntry ==
    [key |-> q_genomic_build, paths |-> <<"genomic_build">>, dbkeys |-> <<k_assembly>>]

BuildEvaluations ==
    {[other |-> None], [genomic_build |-> None]}
    \cup {[genomic_build |-> Str(s)] :
             s \in {s_build37_long, s_build38_long, s_HG38, s_GRCh38, <<"h","g","_","1","9">>}}

k_zygosity == <<"z","y","g","o","s","i","t","y">>

DirectEntry ==
    [key |-> <<".","z","y","g","o","s","i","t","y">>, paths |-> <<"zygosity">>, dbkeys |-> <<k_zygosity>>]

DirectFindings ==
    {[other |-> None], [zygosity |-> None], [zygosity |-> Str(s_None)],
     [zygosity |-> Str(<<"H","O","M","_","A","L","T",","," ","w","h","i","c","h"," ","i","s"," ","r","a","r","e">>)]}

\* A configuration with an item for every other branch, and findings and
\* evaluations that carry its paths.
WideConfig ==
    <<DateEntry, CodeEntry, ReportedEntry,
      [key |-> q_effect, paths |-> <<"effect">>, dbkeys |-> <<k_effect>>],
      GeneEntry, DirectEntry>>

WideFindings ==
    {[criteria |-> Lst(<<e_pm2, e_supporting>>), status |-> r, effect |-> None,
      geneName |-> g, interpretedGene |-> Str(<<"T","P","5","3">>), zygosity |-> None] :
        r \in {Str(s_REPORTING), None}, g \in {None, Str(<<"B","R","C","A","_","1">>)}}

WideEvaluations == {[other |-> None], [date |-> Str(<<"0","2","/","0","1","/","2","0","2","0">>)]}

MapInit ==
    /\ structure \in {"standard", "flat", "nested"}
    /\ \/ /\ \/ mapping_json_keys \in {<<e>> : e \in HgvscEntries}
                /\ variant_data \in HgvscFindings
             \/ mapping_json_keys = <<RefaltEntry>> /\ variant_data \in RefaltFindings
             \/ mapping_json_keys = <<CodeEntry>> /\ variant_data \in CodeFindings
             \/ mapping_json_keys = FullConfig /\ variant_data \in FullFindings
             \/ mapping_json_keys = <<ReportedEntry>>
                /\ variant_data \in ReportedFindings
             \/ mapping_json_keys \in {<<e>> : e \in EffectEntries}
                /\ variant_data \in EffectFindings
             \/ mapping_json_keys = <<GeneEntry>> /\ variant_data \in GeneFindings
             \/ mapping_json_keys = <<DirectEntry>> /\ variant_data \in DirectFindings
          /\ evaluation = <<>>
       \/ /\ mapping_json_keys = <<DateEntry>>
          /\ variant_data = [other |-> None]
          /\ evaluation \in DateEvaluations
       \/ /\ mapping_json_keys = <<BuildEntry>>
          /\ variant_data = [other |-> None]
          /\ evaluation \in BuildEvaluations
       \/ /\ mapping_json_keys = WideConfig
          /\ variant_data \in WideFindings
          /\ evaluation \in WideEvaluations
    /\ parsed_variant_data = <<>>
    /\ key_index = 0
    /\ map_pc = "map"
    /\ PadIdle
    /\ BuildIdle
    /\ RunIdle

\* The item the loop over mapping_json_keys[structure].items() handles next.
CurrentEntry == mapping_json_keys[key_index + 1]

\* Control after an item has been handled: the next item, or the loop ends.
AfterItem ==
    /\ key_index' = key_index + 1
    /\ map_pc' = IF key_index + 1 = Len(mapping_json_keys) THEN "mapped" ELSE "map"

\* if key == "hgvsc": ...
MapHgvsc ==
    /\ map_pc = "map"
    /\ CurrentEntry.key = k_hgvsc
    /\ parsed_variant_data' =
          Put(parsed_variant_data, k_hgvsc,
              hgvsc_join(CurrentEntry.paths, variant_data))
    /\ AfterItem
    /\ UNCHANGED <<structure, mapping_json_keys, variant_data, evaluation>>
    /\ UNCHANGED MapFrame

\* elif key == "refalt": ...
MapRefalt ==
    /\ map_pc = "map"
    /\ CurrentEntry.key = k_refalt
    /\ LET r == refalt_split(structure, CurrentEntry, variant_data)
       IN  IF r.raised
           THEN /\ map_pc' = "raised"
                /\ UNCHANGED <<parsed_variant_data, key_index>>
           ELSE /\ parsed_variant_data' =
                      Put(Put(parsed_variant_data, CurrentEntry.dbkeys[1], r.ref),
                          CurrentEntry.dbkeys[2], r.alt)
                /\ AfterItem
    /\ UNCHANGED <<structure, mapping_json_keys, variant_data, evaluation>>
    /\ UNCHANGED MapFrame

\* elif key == "code" and structure == 'nested': continue
\* elif key == "code": ...
MapCode ==
    /\ map_pc = "map"
    /\ CurrentEntry.key = k_code
    /\ IF structure = "nested"
       THEN /\ UNCHANGED parsed_variant_data
            /\ AfterItem
       ELSE LET r == acgs_code_strength(structure, CurrentEntry, variant_data,
                                        parsed_variant_data)
            IN  IF r.raised
                THEN /\ map_pc' = "raised"
                     /\ UNCHANGED <<parsed_variant_data, key_index>>
                ELSE /\ parsed_variant_data' = r.parsed
                     /\ AfterItem
    /\ UNCHANGED <<structure, mapping_json_keys, variant_data, evaluation>>
    /\ UNCHANGED MapFrame

\* The branch of the if / elif chain an item's key selects.
IsEffectKey(key) == contains(s_equenceOntology, key) \/ key = q_effect

IsDefaultKey(key) ==
    /\ key \notin {k_hgvsc, k_refalt, k_date_last_evaluated, k_code, k_reported}
    /\ ~IsEffectKey(key)

\* elif key == "date_last_evaluated": ...
MapDate ==
    /\ map_pc = "map"
    /\ CurrentEntry.key = k_date_last_evaluated
    /\ LET r == date_reformat(structure, CurrentEntry, evaluation)
       IN  IF r.raised
           THEN /\ map_pc' = "raised"
                /\ UNCHANGED <<parsed_variant_data, key_index>>
           ELSE /\ parsed_variant_data' =
                      Put(parsed_variant_data, k_date_last_evaluated, r.value)
                /\ AfterItem
    /\ UNCHANGED <<structure, mapping_json_keys, variant_data, evaluation>>
    /\ UNCHANGED MapFrame

\* elif key == "reported": ...
MapReported ==
    /\ map_pc = "map"
    /\ CurrentEntry.key = k_reported
    /\ parsed_variant_data' =
          reported_flag(structure, CurrentEntry, variant_data, parsed_variant_data)
    /\ AfterItem
    /\ UNCHANGED <<structure, mapping_json_keys, variant_data, evaluation>>
    /\ UNCHANGED MapFrame

\* elif "equenceOntology" in key or key == ".effect": ...
MapEffect ==
    /\ map_pc = "map"
    /\ CurrentEntry.key \notin {k_hgvsc, k_refalt, k_date_last_evaluated,
                                k_code, k_reported}
    /\ IsEffectKey(CurrentEntry.key)
    /\ LET r == effect_join(CurrentEntry, variant_data)
       IN  IF r.raised
           THEN /\ map_pc' = "raised"
                /\ UNCHANGED <<parsed_variant_data, key_index>>
           ELSE /\ parsed_variant_data' =
                      Put(parsed_variant_data, CurrentEntry.dbkeys[1], r.value)
                /\ AfterItem
    /\ UNCHANGED <<structure, mapping_json_keys, variant_data, evaluation>>
    /\ UNCHANGED MapFrame

\* else: ...
MapDefault ==
    /\ map_pc = "map"
    /\ IsDefaultKey(CurrentEntry.key)
    /\ LET r == map_default(CurrentEntry, variant_data, evaluation)
       IN  IF r.raised
           THEN /\ map_pc' = "raised"
                /\ UNCHANGED <<parsed_variant_data, key_index>>
           ELSE /\ parsed_variant_data' =
                      Put(parsed_variant_data, CurrentEntry.dbkeys[1], r.value)
                /\ AfterItem
    /\ UNCHANGED <<structure, mapping_json_keys, variant_data, evaluation>>
    /\ UNCHANGED MapFrame

MapNext ==
    \/ MapHgvsc \/ MapRefalt \/ MapDate \/ MapCode
    \/ MapReported \/ MapEffect \/ MapDefault

SpecMap == MapInit /\ [][MapNext]_vars

\* ---- claims about the field mapping

\* The mapping item with key k has been handled by the loop.
Handled(k) == \E i \in 1..key_index : mapping_json_keys[i].key = k

\* The mapping item with key k has been handled, or raised while handled.
Attempted(k) ==
    \/ Handled(k)
    \/ map_pc = "raised" /\ mapping_json_keys[key_index + 1].key = k

EntryOf(k) ==
    mapping_json_keys[CHOOSE i \in 1..Len(mapping_json_keys) :
                          mapping_json_keys[i].key = k]

\* The first match of each candidate path of the hgvsc entry, in order.
CandidateValues ==
    [i \in 1..Len(EntryOf(k_hgvsc).paths) |->
        IF EntryOf(k_hgvsc).paths[i] \in DOMAIN variant_data
        THEN variant_data[EntryOf(k_hgvsc).paths[i]] ELSE None]

NotNull(x) == x # None

NotNullNotEmpty(x) == x # None /\ x # Str(<<>>)

\* The strs of a sequence of Str values, joined with ":".
ColonJoined(values) == Str(join(<<":">>, [i \in 1..Len(values) |-> values[i].v]))

\* C7 as stated: hgvsc is the ":"-join of the candidates that are not null,
\* and null when every candidate is null.
C7_AsStated ==
    Handled(k_hgvsc) =>
        /\ k_hgvsc \in DOMAIN parsed_variant_data
        /\ LET kept == SelectSeq(CandidateValues, NotNull)
           IN  parsed_variant_data[k_hgvsc] =
                  IF Len(kept) = 0 THEN None ELSE ColonJoined(kept)

\* C7 (amended): hgvsc is the ":"-join, in candidate order, of the first
\* matches that are neither null nor the empty string; a null or empty
\* candidate is skipped without affecting the others; when no candidate
\* yields a non-empty value the field is present and null.
C7_HgvscJoin ==
    Handled(k_hgvsc) =>
        /\ k_hgvsc \in DOMAIN parsed_variant_data
        /\ LET kept == SelectSeq(CandidateValues, NotNullNotEmpty)
           IN  parsed_variant_data[k_hgvsc] =
                  IF Len(kept) = 0 THEN None ELSE ColonJoined(kept)

\* Candidates yielding "c.1A>T", null, "c.2G>C" were joined to
\* "c.1A>T:c.2G>C".
C7_Witness ==
    /\ Handled(k_hgvsc)
    /\ EntryOf(k_hgvsc).paths = <<"hgvs1", "transcript", "hgvs2">>
    /\ CandidateValues = <<Str(s_c1), None, Str(s_c2)>>
    /\ parsed_variant_data[k_hgvsc] = Str(s_c1 \o <<":">> \o s_c2)

\* The primary refalt value of the finding.
RefaltPrimary ==
    IF EntryOf(k_refalt).paths[1] \in DOMAIN variant_data
    THEN variant_data[EntryOf(k_refalt).paths[1]] ELSE None

RefaltSecond ==
    IF EntryOf(k_refalt).paths[2] \in DOMAIN variant_data
    THEN variant_data[EntryOf(k_refalt).paths[2]] ELSE None

\* C8 as stated: every str primary value that contains "/" is split into
\* ref and alt around the delimiter; a str primary value without "/" gives
\* ref = primary and alt = first match of the second path on nested, and
\* ref = alt = null on standard and flat.
C8_RefaltSplit ==
    (Attempted(k_refalt) /\ RefaltPrimary.t = "str") =>
        /\ map_pc # "raised"
        /\ {k_ref, k_alt} \subseteq DOMAIN parsed_variant_data
        /\ LET p == RefaltPrimary.v
               ref == parsed_variant_data[k_ref]
               alt == parsed_variant_data[k_alt]
           IN  IF \E i \in 1..Len(p) : p[i] = "/"
               THEN /\ ref.t = "str" /\ alt.t = "str"
                    /\ ref.v \o <<"/">> \o alt.v = p
               ELSE IF structure = "nested"
               THEN ref = RefaltPrimary /\ alt = RefaltSecond
               ELSE ref = None /\ alt = None

\* The prefix of a code before its first underscore.
CutAtUnderscore(s) ==
    IF \E i \in 1..Len(s) : s[i] = "_"
    THEN SubSeq(s, 1, (CHOOSE i \in 1..Len(s) :
                          s[i] = "_" /\ \A j \in 1..(i - 1) : s[j] # "_") - 1)
    ELSE s

\* One word title-cased: first letter capital, the others lower-case.
TitleWord(w) ==
    [i \in 1..Len(w) |-> IF i = 1 THEN UpperChar(w[i]) ELSE LowerChar(w[i])]

\* The underscore-separated words of s.
RECURSIVE Words(_)
Words(s) ==
    IF \A i \in 1..Len(s) : s[i] # "_" THEN <<s>>
    ELSE <<CutAtUnderscore(s)>> \o
         Words(SubSeq(s, Len(CutAtUnderscore(s)) + 2, Len(s)))

RECURSIVE SpaceJoined(_)
SpaceJoined(ws) ==
    IF Len(ws) = 0 THEN <<>>
    ELSE IF Len(ws) = 1 THEN TitleWord(ws[1])
    ELSE TitleWord(ws[1]) \o <<" ">> \o SpaceJoined(Tail(ws))

\* The strength as the claim renders it.
RenderedStrength(s) ==
    CASE s = e_supporting -> <<"S","u","p","p","o","r","t","i","n","g">>
      [] s = e_very_strong -> <<"V","e","r","y"," ","S","t","r","o","n","g">>
      [] s = e_standalone -> <<"S","t","a","n","d","-","A","l","o","n","e">>
      [] OTHER -> SpaceJoined(Words(s))

Criteria == variant_data[EntryOf(k_code).paths[1]].v

\* The keys of the record that are not written by the other items of the
\* configuration (an item writes its key or its database keys).
CodeKeys ==
    DOMAIN parsed_variant_data \
        UNION {IF mapping_json_keys[i].key = k_code THEN {}
               ELSE {mapping_json_keys[i].key}
                    \cup {mapping_json_keys[i].dbkeys[j] :
                             j \in 1..Len(mapping_json_keys[i].dbkeys)} :
               i \in 1..Len(mapping_json_keys)}

\* C9: on standard the criteria are read as (code, strength) pairs at
\* (0,1), (2,3), ...; a code, cut at its first underscore and upper-cased,
\* that is in ACGS_CODES sets the key lower-case(code) to the rendered
\* strength (the latest pair of a code decides), and no other key is added;
\* on flat every listed code sets its key to null.
C9_AcgsCodes ==
    (Handled(k_code) /\ structure # "nested") =>
        LET n == IF structure = "flat" THEN Len(Criteria) ELSE Len(Criteria) \div 2
            codeAt(p) == IF structure = "flat" THEN Criteria[p] ELSE Criteria[2 * p - 1]
            hits(c) == {p \in 1..n : upper(CutAtUnderscore(codeAt(p))) = c}
            last(c) == CHOOSE p \in hits(c) : \A q \in hits(c) : q <= p
        IN  /\ CodeKeys = {lower(c) : c \in {x \in ACGS_CODES : hits(x) # {}}}
            /\ \A c \in ACGS_CODES :
                  hits(c) # {} =>
                      parsed_variant_data[lower(c)] =
                          IF structure = "flat" THEN None
                          ELSE Str(RenderedStrength(Criteria[2 * last(c)]))

\* A standard finding with criteria PM2_Mod, VERY_STRONG, ba1, STANDALONE
\* got pm2 = "Very Strong" and ba1 = "Stand-Alone".
C9_Witness ==
    /\ structure = "standard"
    /\ Handled(k_code)
    /\ Criteria = <<e_pm2, e_very_strong, e_ba1, e_standalone>>
    /\ parsed_variant_data[<<"p","m","2">>] =
          Str(<<"V","e","r","y"," ","S","t","r","o","n","g">>)
    /\ parsed_variant_data[<<"b","a","1">>] =
          Str(<<"S","t","a","n","d","-","A","l","o","n","e">>)

\* -------------------------------------------------------- panel index build

\* re.search(r"R[0-9]+", disorder): an "R" followed by a digit, anywhere.
has_r_code(disorder) ==
    \E i \in 1..(Len(disorder) - 1) : disorder[i] = "R" /\ disorder[i + 1] \in Digits

\* r_code: the relevant disorders that hold an R code, in order.
r_code_of(panel_data) == SelectSeq(panel_data.relevant_disorders, has_r_code)

\* r_code_info: ", ".join(r_code) when r_code is not empty (else the empty,
\* falsy, list; see has_r_code_info).
r_code_info_of(panel_data) == join(<<",", " ">>, r_code_of(panel_data))

has_r_code_info(panel_data) == Len(r_code_of(panel_data)) > 0

\* sample_as_key = {row["CUH sample number"].upper(): {"Panels": row["Panels"]}
\*                  for row in medicover_data}, as the dict's items in order.
RECURSIVE make_sample_as_key(_, _)
make_sample_as_key(rows, acc) ==
    IF Len(rows) = 0 THEN acc
    ELSE LET k == upper(rows[1].sample)
             e == [sample |-> k, Panels |-> rows[1].Panels,
                   r_code |-> {}, panel_name |-> {}]
             nxt == IF \E i \in 1..Len(acc) : acc[i].sample = k
                    THEN [i \in 1..Len(acc) |-> IF acc[i].sample = k THEN e ELSE acc[i]]
                    ELSE Append(acc, e)
         IN  make_sample_as_key(Tail(rows), nxt)

\* ", ".join([ele.lstrip("_") for ele in panels["Panels"]])
raw_panel_data_to_match_rescue_mapping(panels) ==
    join(<<",", " ">>, [i \in 1..Len(panels) |-> lstrip(panels[i], "_")])

\* Index of the first rescue row whose raw_panel equals the sample's joined
\* panel list; 0 when there is none (the loop ends without a break).
rescue_index(panels, rescue) ==
    IF \E i \in 1..Len(rescue) :
           rescue[i].raw_panel = raw_panel_data_to_match_rescue_mapping(panels)
    THEN CHOOSE i \in 1..Len(rescue) :
           /\ rescue[i].raw_panel = raw_panel_data_to_match_rescue_mapping(panels)
           /\ \A j \in 1..(i - 1) :
                 rescue[j].raw_panel # raw_panel_data_to_match_rescue_mapping(panels)
    ELSE 0

\* The loop "for panel in panels["Panels"]" from position i on, m being the
\* value matched holds on entry: matched is reset for every panel, a name
\* hit breaks out of the loop, a disorder hit breaks out of the disorder
\* loop only.
RECURSIVE scan_panels(_, _, _, _)
scan_panels(panels, panel_data, i, m) ==
    IF i > Len(panels) THEN m
    ELSE IF contains(panel_data.name, panels[i]) THEN TRUE
    ELSE scan_panels(panels, panel_data, i + 1,
             \E d \in 1..Len(panel_data.relevant_disorders) :
                 contains(panel_data.relevant_disorders[d], panels[i]))

\* ---- inputs of the build

n_ab == <<"a","b">>

n_zz == <<"z","z">>

d_R1 == <<"R","1">>

d_R2 == <<"R","2">>

d_x == <<"x">>

d_c == <<"c">>

\* Rows of the disorder reference (panelapp dump): name, relevant_disorders.
RefPanels ==
    { [name |-> n_ab, relevant_disorders |-> <<d_R1>>],
      [name |-> n_ab, relevant_disorders |-> <<>>],
      [name |-> n_zz, relevant_disorders |-> <<d_R1>>],
      [name |-> n_zz, relevant_disorders |-> <<d_x, d_R2>>],
      [name |-> n_zz, relevant_disorders |-> <<d_c>>] }

\* Panel lists of a sample (str.split(";") never returns an empty list).
PanelLists ==
    { << <<"_","a","b">> >>,
      << <<"R","1","x">>, <<"c">> >>,
      << <<"c">>, <<"R","1","x">> >>,
      << <<"a","b">>, <<"c">> >> }

\* CUH sample numbers, by row.
SampleNumbers ==
    << <<"g","m","1","2",".","3">>, <<"G","M","1","2",".","4">>,
       <<"G","M","1","2",".","5">>, <<"G","M","1","2",".","6">> >>

r_N == [raw_panel |-> <<"a","b">>, new_panel |-> <<"N">>, r_code |-> <<"9">>]

r_M == [raw_panel |-> <<"a","b">>, new_panel |-> <<"M">>, r_code |-> <<>>]

r_L == [raw_panel |-> <<"a","b",","," ","c">>, new_panel |-> <<"L">>, r_code |-> <<>>]

\* Rescue tables: rows raw_panel, new_panel, r_code.
RescueTables == { <<>>, <<r_N>>, <<r_M, r_N>>, <<r_N, r_M>>, <<r_L>>, <<r_L, r_N>> }

BuildInit ==
    /\ \E n \in 0..MaxSamples :
         \E lists \in [1..n -> PanelLists] :
            sample_as_key =
               make_sample_as_key(
                  [i \in 1..n |-> [sample |-> SampleNumbers[i], Panels |-> lists[i]]],
                  <<>>)
    /\ panelapp_dump \in SeqUpTo(RefPanels, MaxRefPanels)
    /\ mapping_rescued_panels \in RescueTables
    /\ panel_i = 0
    /\ sample_i = 0
    /\ rescued = FALSE
    /\ matched = FALSE
    /\ build_pc = "build"
    /\ PadIdle
    /\ MapIdle
    /\ RunIdle

\* The nested loops "for panel_data in panelapp_dump: for sample, panels in
\* sample_as_key.items()" have another (panel_data, sample) pair to visit.
HasNextPair ==
    /\ Len(panelapp_dump) > 0
    /\ Len(sample_as_key) > 0
    /\ ~(panel_i = Len(panelapp_dump) /\ sample_i = Len(sample_as_key))

NextPanelI ==
    IF panel_i = 0 THEN 1
    ELSE IF sample_i = Len(sample_as_key) THEN panel_i + 1 ELSE panel_i

NextSampleI ==
    IF panel_i = 0 \/ sample_i = Len(sample_as_key) THEN 1 ELSE sample_i + 1

\* One pass of the inner loop body in which a rescue row matches: the row's
\* new_panel, and "R" + r_code when r_code is not empty, are added to the
\* sample's sets; rescued = True; continue.
RescueSample ==
    /\ build_pc = "build"
    /\ HasNextPair
    /\ LET s == NextSampleI
           r == rescue_index(sample_as_key[s].Panels, mapping_rescued_panels)
       IN  /\ r # 0
           /\ sample_as_key' =
                 [sample_as_key EXCEPT
                    ![s].r_code =
                        IF Len(mapping_rescued_panels[r].r_code) > 0
                        THEN @ \cup {<<"R">> \o mapping_rescued_panels[r].r_code}
                        ELSE @,
                    ![s].panel_name = @ \cup {mapping_rescued_panels[r].new_panel}]
    /\ rescued' = TRUE
    /\ panel_i' = NextPanelI
    /\ sample_i' = NextSampleI
    /\ UNCHANGED <<matched, panelapp_dump, mapping_rescued_panels, build_pc>>
    /\ UNCHANGED BuildFrame

\* One pass of the inner loop body in which no rescue row matches: the
\* containment scan sets matched, and "if matched and r_code_info" adds
\* r_code_info and panel_name to the sample's sets.
MatchSample ==
    /\ build_pc = "build"
    /\ HasNextPair
    /\ LET s == NextSampleI
           pd == panelapp_dump[NextPanelI]
           m == scan_panels(sample_as_key[s].Panels, pd, 1, matched)
       IN  /\ rescue_index(sample_as_key[s].Panels, mapping_rescued_panels) = 0
           /\ matched' = m
           /\ sample_as_key' =
                 IF m /\ has_r_code_info(pd)
                 THEN [sample_as_key EXCEPT
                         ![s].r_code = @ \cup {r_code_info_of(pd)},
                         ![s].panel_name = @ \cup {pd.name}]
                 ELSE sample_as_key
    /\ rescued' = FALSE
    /\ panel_i' = NextPanelI
    /\ sample_i' = NextSampleI
    /\ UNCHANGED <<panelapp_dump, mapping_rescued_panels, build_pc>>
    /\ UNCHANGED BuildFrame

\* Both loops are exhausted: the index is built.
FinishBuild ==
    /\ build_pc = "build"
    /\ ~HasNextPair
    /\ build_pc' = "built"
    /\ UNCHANGED <<sample_as_key, panelapp_dump, mapping_rescued_panels,
                   panel_i, sample_i, rescued, matched>>
    /\ UNCHANGED BuildFrame

BuildNext == RescueSample \/ MatchSample \/ FinishBuild

SpecPanel == BuildInit /\ [][BuildNext]_vars

\* ---- claims about the panel index build

\* The sample's panel list, each panel without its leading underscores,
\* joined with ", ".
PanelSignature(panels) ==
    LET stripped(p) ==
            LET k == CHOOSE k \in 0..Len(p) :
                        /\ \A j \in 1..k : p[j] = "_"
                        /\ (k < Len(p) => p[k + 1] # "_")
            IN  SubSeq(p, k + 1, Len(p))
        Joined[i \in 0..Len(panels)] ==
            IF i = 0 THEN <<>>
            ELSE IF i = 1 THEN stripped(panels[1])
            ELSE Joined[i - 1] \o <<",", " ">> \o stripped(panels[i])
    IN  Joined[Len(panels)]

\* Positions of the rescue rows whose raw_panel is the sample's signature.
RescueHits(s) ==
    {i \in 1..Len(mapping_rescued_panels) :
        mapping_rescued_panels[i].raw_panel = PanelSignature(s.Panels)}

FirstHit(s) == CHOOSE i \in RescueHits(s) : \A j \in RescueHits(s) : i <= j

\* C4: when the build has ended, a sample whose panel signature equals the
\* raw_panel of a rescue row has exactly the first such row's new_panel as
\* its resolved names and exactly "R" + r_code (nothing when r_code is
\* empty) as its resolved codes, whatever the disorder reference holds.
C4_RescuePrecedence ==
    build_pc = "built" =>
        \A i \in 1..Len(sample_as_key) :
            LET s == sample_as_key[i]
            IN  RescueHits(s) # {} =>
                    /\ s.panel_name = {mapping_rescued_panels[FirstHit(s)].new_panel}
                    /\ s.r_code =
                          IF mapping_rescued_panels[FirstHit(s)].r_code = <<>>
                          THEN {}
                          ELSE {<<"R">> \o mapping_rescued_panels[FirstHit(s)].r_code}

\* Some panel string of the list contains the reference panel's name or one
\* of its disorder strings.
ContainmentMatch(panels, pd) ==
    \E i \in 1..Len(panels) :
        \/ contains(pd.name, panels[i])
        \/ \E d \in 1..Len(pd.relevant_disorders) :
              contains(pd.relevant_disorders[d], panels[i])

\* C10: after the containment scan of a sample without a rescue hit against
\* a reference panel that has an R code, matched is true exactly when some
\* panel string of the sample, at any position, contains the panel's name
\* or one of its disorder strings; and the result is the same whatever
\* matched held from the sample scanned before.
C10_ContainmentMatch ==
    (panel_i >= 1 /\ sample_i >= 1 /\ ~rescued
        /\ has_r_code_info(panelapp_dump[panel_i])) =>
        /\ matched = ContainmentMatch(sample_as_key[sample_i].Panels,
                                      panelapp_dump[panel_i])
        /\ scan_panels(sample_as_key[sample_i].Panels, panelapp_dump[panel_i], 1, TRUE)
           = scan_panels(sample_as_key[sample_i].Panels, panelapp_dump[panel_i], 1, FALSE)

\* ------------------------------------------------------------ the reports loop

\* The top-level keys of the flat structure (line 183), in the order written.
FlatSignature == <<
    "assembly", "citations", "classificationSystem",
    "cnvs", "coverageSummary", "customFields",
    "evaluators", "failedRegions", "finalized",
    "geneList", "geneListDetails", "genePanelName",
    "geneThresholds", "lastModifiedDate", "lastModifiedDateUnix",
    "lastModifiedEmail", "lastModifiedUser", "patientDisorders",
    "patientPhenotypes", "reportDate", "reportDateUnix",
    "resultsSummary", "sampleId", "sampleState",
    "signedOffBy", "signedOffDate", "signedOffDateUnix",
    "signedOffEmail", "testResult", "variants",
    "versionedSources" >>

\* The top-level keys of the nested structure (line 187), in the order written.
NestedSignature == <<
    "case_data", "case_resolution_info", "family_data",
    "institution_info", "report_info", "signatures",
    "technical_info", "variants" >>

\* The key names of the model's documents in jq's sort order (by codepoint).
KeyOrder == <<
    "assembly", "case_data", "case_resolution_info",
    "citations", "classificationSystem", "cnvs",
    "comment", "coverageSummary", "customFields",
    "evaluators", "failedRegions", "family_data",
    "finalized", "geneList", "geneListDetails",
    "genePanelName", "geneThresholds", "institution_info",
    "lastModifiedDate", "lastModifiedDateUnix", "lastModifiedEmail",
    "lastModifiedUser", "patientDisorders", "patientPhenotypes",
    "reportDate", "reportDateUnix", "report_info",
    "resultsSummary", "sampleId", "sampleState",
    "signatures", "signedOffBy", "signedOffDate",
    "signedOffDateUnix", "signedOffEmail", "technical_info",
    "testResult", "variants", "versionedSources" >>

Range(f) == {f[i] : i \in DOMAIN f}

\* jq "keys": an array gives its indices, an object its key names sorted,
\* anything else (null, number, string, boolean) is an error, which the jq
\* binding raises as ValueError.
jq_keys(doc) ==
    IF doc.kind = "array"
    THEN [raised |-> FALSE, t |-> "ints", v |-> [i \in 1..doc.len |-> i - 1]]
    ELSE IF doc.kind = "object"
    THEN [raised |-> FALSE, t |-> "strs",
          v |-> SelectSeq(KeyOrder, LAMBDA k : k \in doc.keys)]
    ELSE [raised |-> TRUE, t |-> "none", v |-> <<>>]

\* ---- keys and fixed values stamped on every record (lines 463-484)

k_local_id ==
    <<"l", "o", "c", "a", "l", "_", "i", "d">>

k_linking_id ==
    <<"l", "i", "n", "k", "i", "n", "g", "_", "i", "d">>

k_institution ==
    <<"i", "n", "s", "t", "i", "t", "u", "t", "i", "o", "n">>

k_organisation ==
    <<"o", "r", "g", "a", "n", "i", "s", "a", "t", "i", "o", "n">>

k_organisation_id ==
    <<"o", "r", "g", "a", "n", "i", "s", "a", "t", "i", "o", "n", "_", "i",
      "d">>

k_collection_method ==
    <<"c", "o", "l", "l", "e", "c", "t", "i", "o", "n", "_", "m", "e", "t",
      "h", "o", "d">>

k_allele_origin ==
    <<"a", "l", "l", "e", "l", "e", "_", "o", "r", "i", "g", "i", "n">>

k_affected_status ==
    <<"a", "f", "f", "e", "c", "t", "e", "d", "_", "s", "t", "a", "t", "u",
      "s">>

k_interpreted ==
    <<"i", "n", "t", "e", "r", "p", "r", "e", "t", "e", "d">>

k_probeset_id ==
    <<"p", "r", "o", "b", "e", "s", "e", "t", "_", "i", "d">>

k_preferred_condition_name ==
    <<"p", "r", "e", "f", "e", "r", "r", "e", "d", "_", "c", "o", "n", "d",
      "i", "t", "i", "o", "n", "_", "n", "a", "m", "e">>

k_r_code ==
    <<"r", "_", "c", "o", "d", "e">>

v_institution ==
    <<"E", "a", "s", "t", " ", "G", "e", "n", "o", "m", "i", "c", " ", "L",
      "a", "b", "o", "r", "a", "t", "o", "r", "y", " ", "H", "u", "b", ",",
      " ", "N", "H", "S", " ", "G", "e", "n", "o", "m", "i", "c", " ", "M",
      "e", "d", "i", "c", "i", "n", "e", " ", "S", "e", "r", "v", "i", "c",
      "e">>

v_organisation ==
    <<"C", "a", "m", "b", "r", "i", "d", "g", "e", " ", "G", "e", "n", "o",
      "m", "i", "c", "s", " ", "L", "a", "b", "o", "r", "a", "t", "o", "r",
      "y">>

v_collection_method ==
    <<"c", "l", "i", "n", "i", "c", "a", "l", " ", "t", "e", "s", "t", "i",
      "n", "g">>

v_allele_origin ==
    <<"g", "e", "r", "m", "l", "i", "n", "e">>

v_yes ==
    <<"y", "e", "s">>

v_probeset_id ==
    <<"M", "e", "d", "i", "c", "o", "v", "e", "r", " ", "T", "W", "E">>

v_not_in_data ==
    <<"S", "a", "m", "p", "l", "e", " ", "n", "o", "t", " ", "i", "n", " ",
      "M", "e", "d", "i", "c", "o", "v", "e", "r", " ", "d", "a", "t", "a">>

v_uid ==
    <<"u", "i", "d", "_">>

\* The if / elif chain of lines 179-194: "raise" when jq fails on the
\* document, "skip" for the else branch, else the structure.
classify(doc) ==
    LET k == jq_keys(doc)
    IN  IF k.raised THEN "raise"
        ELSE IF k.t = "ints" /\ k.v = <<0, 1, 2>> THEN "standard"
        ELSE IF k.t = "strs" /\ k.v = FlatSignature THEN "flat"
        ELSE IF k.t = "strs" /\ k.v = NestedSignature THEN "nested"
        ELSE "skip"

\* evaluation["variants"] for standard and flat; for nested the snp lists
\* of every finding type, concatenated in order.
RECURSIVE flatten_snp(_)
flatten_snp(groups) ==
    IF Len(groups) = 0 THEN <<>>
    ELSE groups[1]["snp"] \o flatten_snp(Tail(groups))

\* evaluation["variants"][finding_type]["snp"] raises KeyError when a
\* finding type has no "snp" entry.
flatten_raises(groups) == \E g \in 1..Len(groups) : "snp" \notin DOMAIN groups[g]

\* The evaluation a flat or nested document stands for: evaluations = [report_data].
as_evaluation(doc) ==
    [empty |-> FALSE, variants |-> doc.variants, groups |-> doc.groups]

\* The first match of r"(?P<gm_number>GM[0-9]{2}_[0-9]+)" with re.IGNORECASE
\* in s, as [found, text]: leftmost start, digits taken greedily.
gm_search(s) ==
    LET at(i) == /\ i + 5 <= Len(s)
                 /\ s[i] \in {"G", "g"} /\ s[i + 1] \in {"M", "m"}
                 /\ s[i + 2] \in Digits /\ s[i + 3] \in Digits
                 /\ s[i + 4] = "_" /\ s[i + 5] \in Digits
        starts == {i \in 1..Len(s) : at(i)}
        i0 == CHOOSE i \in starts : \A j \in starts : i <= j
        e0 == CHOOSE e \in (i0 + 5)..Len(s) :
                 /\ \A j \in (i0 + 5)..e : s[j] \in Digits
                 /\ (e < Len(s) => s[e + 1] \notin Digits)
    IN  IF starts = {} THEN [found |-> FALSE, text |-> <<>>]
        ELSE [found |-> TRUE, text |-> SubSeq(s, i0, e0)]

\* s.replace(a, b) for one-character a and b.
replace_char(s, a, b) == [i \in 1..Len(s) |-> IF s[i] = a THEN b ELSE s[i]]

\* s.strip(c): every leading and every trailing c removed.
RECURSIVE rstrip(_, _)
rstrip(s, c) ==
    IF Len(s) > 0 /\ s[Len(s)] = c THEN rstrip(SubSeq(s, 1, Len(s) - 1), c) ELSE s

strip(s, c) == rstrip(lstrip(s, c), c)

\* sample_as_key.get(gm_number, None): position of the item with that key,
\* 0 for None.
sample_lookup(gm_number) ==
    IF \E i \in 1..Len(sample_as_key) : sample_as_key[i].sample = gm_number
    THEN CHOOSE i \in 1..Len(sample_as_key) : sample_as_key[i].sample = gm_number
    ELSE 0

\* The orders in which iterating a set of strs may yield its elements.
Orderings(S) ==
    {f \in [1..Cardinality(S) -> S] : \A i, j \in 1..Cardinality(S) : i # j => f[i] # f[j]}

\* str(n) for a natural number n.
RECURSIVE decimal(_)
decimal(n) ==
    LET d == <<"0","1","2","3","4","5","6","7","8","9">>[(n % 10) + 1]
    IN  IF n < 10 THEN <<d>> ELSE decimal(n \div 10) \o <<d>>

\* Mutant: the clock reading is used as it is.
uuid1_time_raw(last, now) == now

\* uuid.uuid1().time: the clock reading, moved past the last timestamp
\* handed out when the clock has not advanced (uuid.py: if timestamp <=
\* _last_timestamp: timestamp = _last_timestamp + 1).  The system's
\* generator, used by uuid1 when present, does the same as long as the
\* system clock does not step backwards.
uuid1_time(last, now) == IF now <= last THEN last + 1 ELSE now

organisation_id == 288359

Num(n) == [t |-> "int", v |-> <<n>>]

\* Lines 436-468: the sample's panels, codes and condition names, looked up
\* by the GM number in the report's name; names and codes are the orders
\* in which the two sets are iterated.
enrich(parsed, report, names, codes) ==
    LET m == gm_search(report)
        gm_number == replace_char(m.text, "_", ".")
        i == sample_lookup(gm_number)
        gm_number_data == sample_as_key[i]
        panels == join(<<",", " ">>,
                       [p \in 1..Len(gm_number_data.Panels) |->
                           strip(gm_number_data.Panels[p], "_")])
        p1 == IF gm_number_data.panel_name # {}
              THEN Put(parsed, k_preferred_condition_name, Str(join(<<",", " ">>, names)))
              ELSE parsed
        p2 == IF gm_number_data.r_code # {}
              THEN Put(p1, k_r_code, Str(join(<<",", " ">>, codes)))
              ELSE p1
    IN  IF ~m.found THEN parsed
        ELSE IF i = 0 THEN Put(parsed, k_panel, Str(v_not_in_data))
        ELSE Put(p2, k_panel, Str(panels))

\* Lines 470-484: the identifier pair and the fixed provenance values.
stamp(parsed, unique_id) ==
    LET items == << <<k_local_id, unique_id>>,
                    <<k_linking_id, unique_id>>,
                    <<k_institution, Str(v_institution)>>,
                    <<k_organisation, Str(v_organisation)>>,
                    <<k_organisation_id, Num(organisation_id)>>,
                    <<k_collection_method, Str(v_collection_method)>>,
                    <<k_allele_origin, Str(v_allele_origin)>>,
                    <<k_affected_status, Str(v_yes)>>,
                    <<k_interpreted, Str(v_yes)>>,
                    <<k_probeset_id, Str(v_probeset_id)>> >>
        keys == {items[i][1] : i \in 1..Len(items)}
    IN  [k \in DOMAIN parsed \cup keys |->
            IF k \in keys
            THEN items[CHOOSE i \in 1..Len(items) : items[i][1] = k][2]
            ELSE parsed[k]]

\* ---- inputs of the run

MaxReports == 2

MaxClock == 2

\* The mapping items of the run: one for every branch of the loop.
RunConfig ==
    FullConfig \o
    <<DateEntry, ReportedEntry,
      [key |-> q_effect, paths |-> <<"effect">>, dbkeys |-> <<k_effect>>],
      GeneEntry, DirectEntry>>

\* A finding that carries the paths of RunConfig (its gene name is null
\* when its first hgvsc part is).
Finding(a, p) ==
    [hgvs1 |-> a, transcript |-> None, hgvs2 |-> Str(s_c2),
     refalt |-> p, altAllele |-> Str(<<"T">>),
     criteria |-> Lst(<<e_pm2, e_supporting>>),
     status |-> Str(s_REPORTING), effect |-> None,
     geneName |-> IF a = None THEN None ELSE Str(<<"B","R","C","A","_","1">>),
     interpretedGene |-> Str(<<"T","P","5","3">>)]

f_a == Finding(Str(s_c1), Str(<<"A","/","T">>))

f_b == Finding(None, Str(<<"A">>))

\* A parsed report document: kind is "scalar" (null, a number, a string, a
\* boolean), "array" or "object"; len is an array's length, keys an
\* object's key names; wellformed says that [2]["data"]["evaluations"]
\* exists; evaluations, variants and groups are what the structure holds.
Doc(kind, len, keys, wellformed, evals, vs, groups) ==
    [kind |-> kind, len |-> len, keys |-> keys, wellformed |-> wellformed,
     evaluations |-> evals, variants |-> vs, groups |-> groups]

Scalar == Doc("scalar", 0, {}, FALSE, <<>>, <<>>, <<>>)

Array(n) == Doc("array", n, {}, FALSE, <<>>, <<>>, <<>>)

Standard(evals) == Doc("array", 3, {}, TRUE, evals, <<>>, <<>>)

Object(keys, vs, groups) == Doc("object", 0, keys, FALSE, <<>>, vs, groups)

Evaluation(vs) == [empty |-> FALSE, variants |-> vs, groups |-> <<>>]

EmptyEvaluation == [empty |-> TRUE, variants |-> <<>>, groups |-> <<>>]

RunDocs ==
    { Scalar, Array(0), Array(2), Array(4), Array(3),
      Standard(<<>>),
      Standard(<<EmptyEvaluation, Evaluation(<<f_a>>)>>),
      Standard(<<EmptyEvaluation, Evaluation(<<f_a, f_b, f_a>>)>>),
      Object({}, <<>>, <<>>),
      Object(Range(FlatSignature), <<f_b>>, <<>>),
      Object(Range(FlatSignature) \ {"variants"}, <<>>, <<>>),
      Object(Range(FlatSignature) \cup {"comment"}, <<f_a>>, <<>>),
      Object(Range(NestedSignature), <<>>,
             <<[snp |-> <<f_b>>], [snp |-> <<f_a>>, cnv |-> <<f_b>>]>>),
      Object(Range(NestedSignature), <<>>, <<[cnv |-> <<f_a>>]>>),
      Object(Range(NestedSignature) \ {"signatures"}, <<>>, <<[snp |-> <<f_a>>]>>),
      Object(Range(NestedSignature) \cup {"comment"}, <<>>, <<[snp |-> <<f_a>>]>>) }

nm_rep == <<"r","e","p","1">>

\* Report names with a GM number: of the second sample, of the first in
\* lower case, of the first, and of no sample.
RunNames ==
    { <<"a","_","G","M","1","2","_","4","_","v","2">>,
      <<"g","m","1","2","_","3">>,
      <<"G","M","1","2","_","3">>,
      <<"G","M","9","9","_","1">> }

RunReports ==
    {[name |-> nm_rep, doc |-> d] : d \in RunDocs}
    \cup {[name |-> n, doc |-> Object(Range(FlatSignature), <<f_a>>, <<>>)] :
             n \in RunNames}

\* The panel assignments, the disorder reference and the rescue table of
\* the run.
RunSamples ==
    << [sample |-> SampleNumbers[1], Panels |-> << <<"_","a","b">> >>],
       [sample |-> SampleNumbers[2], Panels |-> << <<"c","_">>, <<"R","1","x">> >>] >>

RunDump ==
    << [name |-> n_ab, relevant_disorders |-> <<d_R1>>],
       [name |-> n_zz, relevant_disorders |-> <<d_x, d_R2>>] >>

Init ==
    /\ sample_as_key = make_sample_as_key(RunSamples, <<>>)
    /\ panelapp_dump = RunDump
    /\ mapping_rescued_panels = <<r_N>>
    /\ panel_i = 0
    /\ sample_i = 0
    /\ rescued = FALSE
    /\ matched = FALSE
    /\ build_pc = "build"
    /\ reports \in SeqUpTo(RunReports, MaxReports)
    /\ report_i = 0
    /\ evaluations = <<>>
    /\ eval_j = 0
    /\ variants = <<>>
    /\ variant_k = 0
    /\ data_to_import = <<>>
    /\ skipped_reports = 0
    /\ correct_data_to_import = <<>>
    /\ last_timestamp = 0
    /\ run_pc = "reports"
    /\ structure = "standard"
    /\ mapping_json_keys = RunConfig
    /\ variant_data = <<>>
    /\ evaluation = <<>>
    /\ parsed_variant_data = <<>>
    /\ key_index = 0
    /\ map_pc = "mapped"
    /\ PadIdle

\* ---- the steps of the reports loop

\* The outer loop has another report to take.
HasNextReport ==
    /\ build_pc = "built"
    /\ run_pc = "reports"
    /\ report_i < Len(reports)

NextDoc == reports[report_i + 1].doc

\* jq "keys" fails on the document: the exception leaves main.
ReportRaises ==
    /\ HasNextReport
    /\ classify(NextDoc) = "raise"
    /\ report_i' = report_i + 1
    /\ run_pc' = "raised"
    /\ UNCHANGED <<reports, evaluations, eval_j, variants, variant_k,
                   data_to_import, skipped_reports, correct_data_to_import,
                   last_timestamp>>
    /\ UNCHANGED mapVars
    /\ UNCHANGED RunFrame

\* else: skipped_reports += 1; continue
SkipReport ==
    /\ HasNextReport
    /\ classify(NextDoc) = "skip"
    /\ report_i' = report_i + 1
    /\ skipped_reports' = skipped_reports + 1
    /\ UNCHANGED <<reports, evaluations, eval_j, variants, variant_k,
                   data_to_import, correct_data_to_import, last_timestamp, run_pc>>
    /\ UNCHANGED mapVars
    /\ UNCHANGED RunFrame

\* One of the three structures: evaluations and structure are set (for the
\* standard one get_evaluations raises unless [2]["data"]["evaluations"]
\* exists) and the loop over the evaluations begins.
BeginReport ==
    /\ HasNextReport
    /\ classify(NextDoc) \in {"standard", "flat", "nested"}
    /\ report_i' = report_i + 1
    /\ IF classify(NextDoc) = "standard" /\ ~NextDoc.wellformed
       THEN /\ run_pc' = "raised"
            /\ UNCHANGED <<structure, evaluations, eval_j>>
       ELSE /\ structure' = classify(NextDoc)
            /\ evaluations' = IF classify(NextDoc) = "standard"
                              THEN NextDoc.evaluations
                              ELSE <<as_evaluation(NextDoc)>>
            /\ eval_j' = 0
            /\ run_pc' = "evaluations"
    /\ UNCHANGED <<reports, variants, variant_k, data_to_import, skipped_reports,
                   correct_data_to_import, last_timestamp>>
    /\ UNCHANGED <<mapping_json_keys, variant_data, evaluation,
                   parsed_variant_data, key_index, map_pc>>
    /\ UNCHANGED RunFrame

\* for j, evaluation in enumerate(evaluations, startPoint): an empty
\* evaluation is passed over, another one gives its findings (flattened
\* when nested), and when none is left the report has been processed.
NextEvaluation ==
    /\ run_pc = "evaluations"
    /\ IF eval_j = Len(evaluations)
       THEN /\ run_pc' = "reports"
            /\ UNCHANGED <<eval_j, evaluation, variants, variant_k>>
       ELSE LET ev == evaluations[eval_j + 1]
            IN  /\ eval_j' = eval_j + 1
                /\ evaluation' = ev
                /\ IF ev.empty
                   THEN UNCHANGED <<variants, variant_k, run_pc>>
                   ELSE IF structure = "nested" /\ flatten_raises(ev.groups)
                   THEN /\ run_pc' = "raised"
                        /\ UNCHANGED <<variants, variant_k>>
                   ELSE /\ variants' = IF structure = "nested"
                                       THEN flatten_snp(ev.groups)
                                       ELSE ev.variants
                        /\ variant_k' = 0
                        /\ run_pc' = "variants"
    /\ UNCHANGED <<reports, report_i, evaluations, data_to_import, skipped_reports,
                   correct_data_to_import, last_timestamp>>
    /\ UNCHANGED <<structure, mapping_json_keys, variant_data,
                   parsed_variant_data, key_index, map_pc>>
    /\ UNCHANGED RunFrame

\* for variant_data in variants: parsed_variant_data = {} and the loop over
\* the mapping items begins; when no finding is left the evaluation is done.
NextVariant ==
    /\ run_pc = "variants"
    /\ IF variant_k = Len(variants)
       THEN /\ run_pc' = "evaluations"
            /\ UNCHANGED <<variant_k, variant_data, parsed_variant_data,
                           key_index, map_pc>>
       ELSE /\ variant_k' = variant_k + 1
            /\ variant_data' = variants[variant_k + 1]
            /\ parsed_variant_data' = <<>>
            /\ key_index' = 0
            /\ map_pc' = IF Len(mapping_json_keys) = 0 THEN "mapped" ELSE "map"
            /\ run_pc' = "mapping"
    /\ UNCHANGED <<reports, report_i, evaluations, eval_j, variants,
                   data_to_import, skipped_reports, correct_data_to_import,
                   last_timestamp>>
    /\ UNCHANGED <<structure, mapping_json_keys, evaluation>>
    /\ UNCHANGED RunFrame

\* The sample the report's name leads to: its position in sample_as_key, 0
\* when the name holds no GM number or the number is not a key.
sample_of(report) ==
    IF gm_search(report).found
    THEN sample_lookup(replace_char(gm_search(report).text, "_", "."))
    ELSE 0

\* After the mapping items: the sample's data, a fresh identifier from the
\* clock, the provenance values, and data_to_import.append.
AppendRecord ==
    /\ run_pc = "mapping"
    /\ map_pc = "mapped"
    /\ LET report == reports[report_i].name
           i == sample_of(report)
       IN  \E now \in 1..MaxClock,
              names \in Orderings(IF i = 0 THEN {} ELSE sample_as_key[i].panel_name),
              codes \in Orderings(IF i = 0 THEN {} ELSE sample_as_key[i].r_code) :
              LET timestamp == uuid1_time(last_timestamp, now)
                  unique_id == Str(v_uid \o decimal(timestamp))
              IN  /\ data_to_import' =
                        Append(data_to_import,
                               stamp(enrich(parsed_variant_data, report, names, codes),
                                     unique_id))
                  /\ last_timestamp' = timestamp
    /\ run_pc' = "variants"
    /\ UNCHANGED <<reports, report_i, evaluations, eval_j, variants, variant_k,
                   skipped_reports, correct_data_to_import>>
    /\ UNCHANGED mapVars
    /\ UNCHANGED RunFrame

\* After the last report: correct_data_to_import =
\* utils.add_missing_keys(data_to_import), which pads the dicts of
\* data_to_import in place.
Finalize ==
    /\ build_pc = "built"
    /\ run_pc = "reports"
    /\ report_i = Len(reports)
    /\ correct_data_to_import' = add_missing_keys(data_to_import)
    /\ data_to_import' = add_missing_keys(data_to_import)
    /\ run_pc' = "done"
    /\ UNCHANGED <<reports, report_i, evaluations, eval_j, variants, variant_k,
                   skipped_reports, last_timestamp>>
    /\ UNCHANGED mapVars
    /\ UNCHANGED RunFrame

Next ==
    \/ RescueSample \/ MatchSample \/ FinishBuild
    \/ ReportRaises \/ SkipReport \/ BeginReport
    \/ NextEvaluation \/ NextVariant
    \/ MapHgvsc \/ MapRefalt \/ MapDate \/ MapCode
    \/ MapReported \/ MapEffect \/ MapDefault
    \/ AppendRecord \/ Finalize

Spec == Init /\ [][Next]_vars

\* ---- claims about the reports loop

\* The class a document's top-level shape puts it in.
ShapeClass(doc) ==
    IF doc.kind = "array" /\ doc.len = 3 THEN "standard"
    ELSE IF doc.kind = "object" /\ doc.keys = Range(FlatSignature) THEN "flat"
    ELSE IF doc.kind = "object" /\ doc.keys = Range(NestedSignature) THEN "nested"
    ELSE "unrecognized"

\* How many of the first n reports are unrecognized by shape.
UnrecognizedAmong(n) ==
    Cardinality({i \in 1..n : ShapeClass(reports[i].doc) = "unrecognized"})

RECURSIVE SumLen(_)
SumLen(lists) == IF Len(lists) = 0 THEN 0 ELSE Len(lists[1]) + SumLen(Tail(lists))

\* The findings of a recognized document's non-empty evaluations.
FindingsOf(doc) ==
    IF ShapeClass(doc) = "standard"
    THEN SumLen([e \in 1..Len(doc.evaluations) |->
                    IF doc.evaluations[e].empty THEN <<>>
                    ELSE doc.evaluations[e].variants])
    ELSE IF ShapeClass(doc) = "flat" THEN Len(doc.variants)
    ELSE IF ShapeClass(doc) = "nested"
    THEN SumLen([g \in 1..Len(doc.groups) |->
                    IF "snp" \in DOMAIN doc.groups[g] THEN doc.groups[g]["snp"]
                    ELSE <<>>])
    ELSE 0

TotalFindings == SumLen([i \in 1..Len(reports) |->
                            [n \in 1..FindingsOf(reports[i].doc) |-> n]])

\* The report the outer loop holds is being processed as one of the
\* structures.
Processing == run_pc \in {"evaluations", "variants", "mapping"}

\* C1: a top-level array of exactly three elements is classified standard,
\* an object with exactly the flat key set flat, an object with exactly the
\* nested key set nested, and every other document is classified
\* unrecognized and skipped: the report being processed is processed as the
\* structure of its shape, a report of no recognized shape is passed over
\* (the loop goes on to the next report or the run finishes), and the skip
\* counter counts exactly the reports of no recognized shape taken so far.
C1_Classification ==
    (build_pc = "built" /\ report_i >= 1) =>
        LET doc == reports[report_i].doc
        IN  /\ Processing => structure = ShapeClass(doc)
            /\ ShapeClass(doc) = "unrecognized" => run_pc \in {"reports", "done"}
            /\ skipped_reports = UnrecognizedAmong(report_i)

\* C3: every document is processed in order and an unrecognized document
\* never stops the ones after it: no exception leaves main while the
\* report held is unrecognized, and when the run is done every report has
\* been taken, the skip counter is the number of unrecognized reports and
\* the batch holds one record per finding of every non-empty evaluation
\* of every recognized report.
C3_RunCompletes ==
    /\ (run_pc = "raised" /\ report_i >= 1) =>
           ShapeClass(reports[report_i].doc) # "unrecognized"
    /\ run_pc = "done" =>
           /\ report_i = Len(reports)
           /\ skipped_reports = UnrecognizedAmong(Len(reports))
           /\ Len(data_to_import) = TotalFindings
           /\ Len(correct_data_to_import) = TotalFindings

NameMatches(panel_data, panels) ==
    \E p \in 1..Len(panels) : contains(panel_data.name, panels[p])

\* C11: for a sample with no rescue hit, every reference panel whose name
\* is a substring of one of the sample's panel strings has contributed its
\* name to the sample's panel-name set, whether or not it has a derived
\* code, and its derived codes to the code set when it has any: once the
\* index is built the sets hold the contribution of every matching
\* reference panel of the whole scan.
C11_Accumulation ==
    build_pc = "built" =>
        \A s \in 1..Len(sample_as_key) :
            rescue_index(sample_as_key[s].Panels, mapping_rescued_panels) = 0 =>
                \A r \in 1..Len(panelapp_dump) :
                    NameMatches(panelapp_dump[r], sample_as_key[s].Panels) =>
                        /\ panelapp_dump[r].name \in sample_as_key[s].panel_name
                        /\ has_r_code_info(panelapp_dump[r]) =>
                              r_code_info_of(panelapp_dump[r]) \in sample_as_key[s].r_code

\* ---- claims about path misses and the nested structure

\* What the item's queries are evaluated against.
SourceOf(entry) ==
    IF entry.key \in {k_date_last_evaluated, q_genomic_build}
    THEN evaluation ELSE variant_data

\* The value at a path of a dict, null when the path matches nothing.
AtPath(path, doc) == IF path \in DOMAIN doc THEN doc[path] ELSE None

\* The item's path matches nothing or yields null: every candidate for
\* hgvsc, the primary path for refalt, the primary and the
\* interpreted-gene fallback for the gene symbol, the path otherwise.
PathMiss(entry) ==
    IF entry.key = k_hgvsc
    THEN \A i \in 1..Len(entry.paths) : AtPath(entry.paths[i], variant_data) = None
    ELSE IF Len(entry.dbkeys) > 0 /\ entry.dbkeys[1] = k_gene_symbol
    THEN /\ AtPath(entry.paths[1], variant_data) = None
         /\ AtPath("interpretedGene", variant_data) = None
    ELSE AtPath(entry.paths[1], SourceOf(entry)) = None

\* The record fields an item writes.
FieldsOf(entry) ==
    IF entry.key \in {k_hgvsc, k_date_last_evaluated, k_reported} THEN {entry.key}
    ELSE IF entry.key = k_code THEN {lower(c) : c \in ACGS_CODES}
    ELSE {entry.dbkeys[i] : i \in 1..Len(entry.dbkeys)}

NullOrUnset(field) ==
    field \notin DOMAIN parsed_variant_data \/ parsed_variant_data[field] = None

\* C12: a path miss is never an error in any strategy: the mapping loop
\* never raises on an item whose path matches nothing or yields null, and
\* once such an item has been handled each of its fields is null or unset
\* in the record.
C12_MissIsNull ==
    /\ map_pc = "raised" => ~PathMiss(CurrentEntry)
    /\ \A i \in 1..key_index :
          PathMiss(mapping_json_keys[i]) =>
              \A f \in FieldsOf(mapping_json_keys[i]) : NullOrUnset(f)

\* The keys under which the code strategy could leave something.
CodeFields == {lower(c) : c \in ACGS_CODES} \cup {k_code}

\* C13: on the nested structure the ACGS-code and the reported strategies
\* never crash and each leaves an explicit entry in the record: once the
\* reported item is handled, reported is present with value null, and
\* once the code item is handled, the record holds an entry for the ACGS
\* code fields.
C13_NestedUnsupported ==
    structure = "nested" =>
        /\ map_pc = "raised" => CurrentEntry.key \notin {k_code, k_reported}
        /\ Handled(k_reported) =>
              /\ k_reported \in DOMAIN parsed_variant_data
              /\ parsed_variant_data[k_reported] = None
        /\ Handled(k_code) =>
              \E f \in CodeFields : f \in DOMAIN parsed_variant_data

\* The number of findings of one finding category over the encoding
\* types in types.
RECURSIVE CategorySizeOver(_, _)
CategorySizeOver(group, types) ==
    IF types = {} THEN 0
    ELSE LET t == CHOOSE u \in types : TRUE
         IN  Len(group[t]) + CategorySizeOver(group, types \ {t})

CategorySize(group) == CategorySizeOver(group, DOMAIN group)

\* The total number of findings in a two-level grouping.
GroupingSize(groups) ==
    SumLen([g \in 1..Len(groups) |-> [n \in 1..CategorySize(groups[g]) |-> n]])

\* C14: for a nested document the flat finding sequence handed to field
\* mapping holds each finding of the two-level grouping (every finding
\* category, every encoding type under it) exactly once: flattening never
\* raises, the sequence is as long as the grouping has findings, and every
\* finding of the grouping is in it.
C14_Flattening ==
    /\ (run_pc = "raised" /\ map_pc # "raised" /\ report_i >= 1) =>
           ShapeClass(reports[report_i].doc) # "nested"
    /\ (run_pc \in {"variants", "mapping"} /\ structure = "nested") =>
           /\ Len(variants) = GroupingSize(evaluation.groups)
           /\ \A g \in 1..Len(evaluation.groups) :
                 \A t \in DOMAIN evaluation.groups[g] :
                    \A i \in 1..Len(evaluation.groups[g][t]) :
                       \E k \in 1..Len(variants) :
                          variants[k] = evaluation.groups[g][t][i]

\* The report's name holds a GM sample identifier (matched without regard
\* to case, underscore read as a dot) that equals the sample identifier
\* without regard to case.
NameHasSample(report, sample) ==
    /\ gm_search(report).found
    /\ upper(replace_char(gm_search(report).text, "_", ".")) = upper(sample)

\* The sample's panels, each without its leading and trailing underscores,
\* joined with ", ".
PanelField(panels) ==
    Str(join(<<",", " ">>, [p \in 1..Len(panels) |-> strip(panels[p], "_")]))

\* C15: every record of a report whose name holds the identifier of a
\* sample of the panel assignments gets that sample's panel list in its
\* panel field, and its resolved condition names and codes when there are
\* any, never "Sample not in Medicover data": stated of the record just
\* appended for the report the loop holds.
C15_SampleLookup ==
    (run_pc = "variants" /\ variant_k >= 1) =>
        LET report == reports[report_i].name
            record == data_to_import[Len(data_to_import)]
        IN  \A s \in 1..Len(sample_as_key) :
                NameHasSample(report, sample_as_key[s].sample) =>
                    /\ k_panel \in DOMAIN record
                    /\ record[k_panel] = PanelField(sample_as_key[s].Panels)
                    /\ record[k_panel] # Str(v_not_in_data)
                    /\ sample_as_key[s].panel_name # {} =>
                          k_preferred_condition_name \in DOMAIN record
                    /\ sample_as_key[s].r_code # {} => k_r_code \in DOMAIN record

=============================================================================
